---------------------------- MODULE Spec2Model ----------------------------
(***************************************************************************)
(* A model of the n-gram / skip-gram counting collections of               *)
(* jacksonllee/nskipgrams: the windowing functions (ngrams_from_seq,       *)
(* skipgrams_from_seq), the counting trie, and the collection classes      *)
(* Ngrams (src/ngrams.py), Skipgrams and its subclass Ngrams               *)
(* (src/nskipgrams.py).                                                    *)
(*                                                                         *)
(* Python values are modelled as follows.                                  *)
(*   - a token is one of the strings of Tokens;                            *)
(*   - a tuple / str of tokens is a TLA+ sequence; indices written in the  *)
(*     source are 0-based and are kept 0-based here (seq[i] is s[i+1]);    *)
(*   - a dict is a function whose DOMAIN is the set of keys; a trie node   *)
(*     is either such a function (a defaultdict) or an integer count,      *)
(*     tagged [tag |-> "dict" | "int", val |-> ...] so that the source's   *)
(*     type(trie) == int test can be written;                              *)
(*   - an exception is the err field of an operation's result.             *)
(***************************************************************************)
EXTENDS Integers, Sequences, FiniteSets, TLC

VARIABLES
    colls,    \* the collection objects: id -> [kind, n, skip, tries]
    ledger,   \* history: id -> (<<entry, skip>> -> sum of the counts add() was given),
              \*          kept while onlyAdds[id]
    onlyAdds, \* history: id -> TRUE while add() is the only method called on the object
    last,     \* the call that was made last: its operation, arguments and outcome
    budget,   \* how many more calls the client makes
    win,      \* the windowing call: its arguments and, once run, its results
    query,    \* the constructor call or the query made last: its arguments,
              \* how far it has run and its outcome
    nodes     \* the trie objects by address, where the objects are modelled
              \* with references: address -> (token -> child address or count)

vars == <<colls, ledger, onlyAdds, last, budget, win, query, nodes>>

----------------------------------------------------------------------------
(* Bounds of the model. *)

Tokens == {"a", "b"}

\* longest sequence handed to add_from_seq
MaxSeqLen == 3

\* largest max_order a collection is constructed with
MaxOrder == 2

\* largest max_skip a collection is constructed with
MaxSkip == 1

\* largest count argument of an add / add_from_seq call
MaxCount == 2

\* number of calls in one behaviour of Spec
MaxSteps == 2

\* number of calls in one behaviour of SpecPlain
MaxStepsPlain == 3

\* number of add_from_seq calls before the query in one behaviour of SpecQ
MaxStepsQ == 1

\* longest sequence handed to skipgrams_from_seq in SpecQ
MaxSeqLenQ == 2

\* longest sequence handed to the windowing functions in SpecW
MaxWinLen == 4

SeqsUpTo(k) == UNION {[1..m -> Tokens] : m \in 0..k}

Min(x, y) == IF x <= y THEN x ELSE y

Max(x, y) == IF x >= y THEN x ELSE y

\* range(lo, hi) as the sequence lo, lo+1, ..., hi-1
Range(lo, hi) == [i \in 1..Max(hi - lo, 0) |-> lo + i - 1]

RECURSIVE Concat(_)
\* the concatenation of a sequence of sequences
Concat(ss) == IF ss = <<>> THEN <<>> ELSE Head(ss) \o Concat(Tail(ss))

\* the elements of a sequence
Elems(s) == {s[i] : i \in 1..Len(s)}

----------------------------------------------------------------------------
(* The windowing functions (src/nskipgrams.py). *)

\* seq[i + 1:]: a slice that starts one token late
SliceFromNext(seq, i) == SubSeq(seq, Min(i + 1, Len(seq)) + 1, Len(seq))

\* seq[i:]
SliceFrom(seq, i) == SubSeq(seq, Min(i, Len(seq)) + 1, Len(seq))

\* zip(*iterables): stops at the shortest; zip() of nothing yields nothing
Zip(slices) ==
    IF Len(slices) = 0 THEN <<>>
    ELSE LET shortest == CHOOSE m \in {Len(slices[j]) : j \in 1..Len(slices)} :
                             \A j \in 1..Len(slices) : m <= Len(slices[j])
         IN  [i \in 1..shortest |-> [j \in 1..Len(slices) |-> slices[j][i]]]

\* ngrams_from_seq(seq, n): yield from zip(*(seq[i:] for i in range(n)))
ngrams_from_seq(seq, n) ==
    Zip([j \in 1..Max(n, 0) |-> SliceFrom(seq, j - 1)])

RECURSIVE combinations(_, _, _)
\* itertools.combinations(range(lo, hi), r): the ascending r-tuples of
\* lo..hi-1 in lexicographic order
combinations(lo, hi, r) ==
    IF r = 0 THEN << <<>> >>
    ELSE Concat([f \in 1..Max(hi - lo, 0) |->
                    LET first == lo + f - 1
                        rest  == combinations(first + 1, hi, r - 1)
                    IN  [j \in 1..Len(rest) |-> <<first>> \o rest[j]]])

\* a list in place of the ordered set: an index tuple is kept once per window
OrderedSetAddNoDedup(ordered, key) == Append(ordered, key)

\* all_indices[key] = 0 on an OrderedDict used as an ordered set: a key
\* already present keeps its place
OrderedSetAdd(ordered, key) ==
    IF key \in Elems(ordered) THEN ordered ELSE Append(ordered, key)

RECURSIVE OrderedSetAddAll(_, _)
OrderedSetAddAll(ordered, keys) ==
    IF keys = <<>> THEN ordered
    ELSE OrderedSetAddAll(OrderedSetAdd(ordered, Head(keys)), Tail(keys))

\* tuple(i for i in indices): the offsets are not moved to the window's start
ShiftNot(indices, k) == indices

\* tuple(i + k for i in indices)
Shift(indices, k) == [j \in 1..Len(indices) |-> indices[j] + k]

\* the width of the offset window: min(skip + n, len(seq))
WindowWidth(seq, n, skip) == Min(skip + n, Len(seq))

RECURSIVE all_indices_from(_, _, _, _, _)
\* the loop over k of skipgrams_from_seq, from k on, all_indices being acc
all_indices_from(seq, n, skip, k, acc) ==
    IF k >= Len(seq) - n + 1 THEN acc
    ELSE LET combos == combinations(0, WindowWidth(seq, n, skip), n)
             shifted == [j \in 1..Len(combos) |-> Shift(combos[j], k)]
         IN  all_indices_from(seq, n, skip, k + 1, OrderedSetAddAll(acc, shifted))

\* all_indices once the loop of skipgrams_from_seq is over
all_indices(seq, n, skip) == all_indices_from(seq, n, skip, 0, <<>>)

\* seq[i] raises IndexError for an index past the end (every index here is >= 0)
IndexError(seq, indices) == \E j \in 1..Len(indices) : indices[j] >= Len(seq)

\* the index tuples whose tokens are yielded: the ones that raise no IndexError
YieldedIndices(seq, n, skip) ==
    SelectSeq(all_indices(seq, n, skip), LAMBDA ix : ~IndexError(seq, ix))

\* _validate_n(n, upper_bound): "ValueError" or "none" (n is an integer here)
validate_n(n, hasBound, upper_bound) ==
    IF n < 1 THEN "ValueError"
    ELSE IF hasBound /\ n > upper_bound THEN "ValueError"
    ELSE "none"

\* _validate_skip(skip, upper_bound)
validate_skip(skip, hasBound, upper_bound) ==
    IF skip < 0 THEN "ValueError"
    ELSE IF hasBound /\ skip > upper_bound THEN "ValueError"
    ELSE "none"

\* skipgrams_from_seq(seq, n, skip), consumed to the end
skipgrams_from_seq(seq, n, skip) ==
    IF validate_n(n, TRUE, Len(seq)) # "none"
        THEN [err |-> "ValueError", items |-> <<>>]
    ELSE IF validate_skip(skip, TRUE, Len(seq)) # "none"
        THEN [err |-> "ValueError", items |-> <<>>]
    ELSE LET ixs == YieldedIndices(seq, n, skip)
         IN  [err |-> "none",
              items |-> [j \in 1..Len(ixs) |->
                            [p \in 1..n |-> seq[ixs[j][p] + 1]]]]

----------------------------------------------------------------------------
(* The counting trie (src/ngrams.py and src/nskipgrams.py share it). *)

\* iteration order of a dict's keys.  Python iterates in insertion order;
\* the model iterates in this fixed order, and nothing below reads more
\* than the multiset of what an iteration yields.
TokenOrder == <<"a", "b">>

Keys(d) == SelectSeq(TokenOrder, LAMBDA t : t \in DOMAIN d)

DictNode(d) == [tag |-> "dict", val |-> d]

IntNode(c) == [tag |-> "int", val |-> c]

None == [tag |-> "None", val |-> 0]

\* _trie(): an empty defaultdict
trie_new == DictNode([t \in {} |-> 0])

\* d[key] = value
DictSet(d, key, value) ==
    [t \in (DOMAIN d) \cup {key} |-> IF t = key THEN value ELSE d[t]]

RECURSIVE trie_insert_overwrite(_, _, _)
\* trie[last_token] = count also when last_token is there: no accumulation
trie_insert_overwrite(node, ngram, count) ==
    LET d   == node.val
        tok == Head(ngram)
    IN  IF Len(ngram) = 1
        THEN DictNode(DictSet(d, tok, IntNode(count)))
        ELSE DictNode(DictSet(d, tok,
                 trie_insert_overwrite(IF tok \in DOMAIN d THEN d[tok] ELSE trie_new,
                                       Tail(ngram), count)))

RECURSIVE trie_insert(_, _, _)
\* the body of add / _add below the validation, on the stratum's root:
\*     for token in ngram[:-1]: trie = trie[token]   (a defaultdict: a
\*                                  missing token gets an empty trie)
\*     trie[last_token] += count, or = count when last_token is new
trie_insert(node, ngram, count) ==
    LET d   == node.val
        tok == Head(ngram)
    IN  IF Len(ngram) = 1
        THEN DictNode(DictSet(d, tok,
                 IF tok \in DOMAIN d THEN IntNode(d[tok].val + count)
                                     ELSE IntNode(count)))
        ELSE DictNode(DictSet(d, tok,
                 trie_insert(IF tok \in DOMAIN d THEN d[tok] ELSE trie_new,
                             Tail(ngram), count)))

RECURSIVE get_inner_trie_from_prefix(_, _)
\* _get_inner_trie_from_prefix(trie, ngram_prefix): None, a count or a trie
get_inner_trie_from_prefix(node, prefix) ==
    IF prefix = <<>> THEN node
    ELSE IF node.tag = "int" \/ Head(prefix) \notin DOMAIN node.val THEN None
    ELSE get_inner_trie_from_prefix(node.val[Head(prefix)], Tail(prefix))

RECURSIVE trie_after_lookup_defaultdict(_, _)
\* the trie after a lookup that does trie = trie[token] without testing
\* `token not in trie`: the defaultdict gives a missing token an empty trie
trie_after_lookup_defaultdict(node, prefix) ==
    IF prefix = <<>> \/ node.tag = "int" THEN node
    ELSE DictNode(DictSet(node.val, Head(prefix),
             trie_after_lookup_defaultdict(
                 IF Head(prefix) \in DOMAIN node.val THEN node.val[Head(prefix)]
                                                    ELSE trie_new,
                 Tail(prefix))))

RECURSIVE trie_after_lookup(_, _)
\* the trie as _get_inner_trie_from_prefix(trie, ngram_prefix) leaves it:
\* trie[token] is evaluated for the tokens that are in the trie only
trie_after_lookup(node, prefix) ==
    IF prefix = <<>> THEN node
    ELSE IF node.tag = "int" \/ Head(prefix) \notin DOMAIN node.val THEN node
    ELSE DictNode(DictSet(node.val, Head(prefix),
             trie_after_lookup(node.val[Head(prefix)], Tail(prefix))))

RECURSIVE flatten_trie(_)
\* _flatten_trie(trie_): the tuples (token, ..., token, count), one per leaf.
\* sum(trie_.values()) raises TypeError exactly when a value is a trie.
flatten_trie(node) ==
    LET d  == node.val
        ks == Keys(d)
    IN  IF \E t \in DOMAIN d : d[t].tag = "dict"
        THEN Concat([i \in 1..Len(ks) |->
                 LET inner == flatten_trie(d[ks[i]])
                 IN  [j \in 1..Len(inner) |-> <<ks[i]>> \o inner[j]]])
        ELSE [i \in 1..Len(ks) |-> <<ks[i], d[ks[i]].val>>]

\* a Python tuple of tokens, a Python str of characters, and None
PyTuple(items) == [type |-> "tuple", items |-> items]

PyStr(items) == [type |-> "str", items |-> items]

PyNone == [type |-> "None", items |-> <<>>]

\* prefix or (): None, "" and () are falsy
OrEmptyTuple(prefix) ==
    IF prefix.type = "None" \/ prefix.items = <<>> THEN PyTuple(<<>>) ELSE prefix

\* _flattened_ngrams_with_counts(trie, prefix), consumed to the end:
\* the pairs yielded and the exception that ended the iteration, if any.
\* prefix + ngram is a TypeError when prefix is a str (ngram is a tuple).
flattened_ngrams_with_counts(trie, prefix) ==
    LET p     == OrEmptyTuple(prefix)
        inner == get_inner_trie_from_prefix(trie, p.items)
    IN  IF inner.tag = "None" THEN [err |-> "none", items |-> <<>>]
        ELSE IF inner.tag = "int"
            THEN [err |-> "none",
                  items |-> << [ngram |-> p, count |-> inner.val] >>]
        ELSE LET flat == flatten_trie(inner)
             IN  IF flat = <<>> THEN [err |-> "none", items |-> <<>>]
                 ELSE IF p.type = "str" THEN [err |-> "TypeError", items |-> <<>>]
                 ELSE [err |-> "none",
                       items |-> [i \in 1..Len(flat) |->
                           [ngram |-> PyTuple(p.items \o SubSeq(flat[i], 1, Len(flat[i]) - 1)),
                            count |-> flat[i][Len(flat[i])]]]]

\* the tail of count(): a trie, None and 0 all give 0
count_of(inner) == IF inner.tag = "int" THEN inner.val ELSE 0

----------------------------------------------------------------------------
(* The collection classes.  A collection object is a record                *)
(*   [kind |-> "ngrams.Ngrams", order, tries]        (src/ngrams.py), or   *)
(*   [kind |-> "nskipgrams.Skipgrams" | "nskipgrams.Ngrams", n, skip,      *)
(*    tries]                                         (src/nskipgrams.py);  *)
(* tries is the dict self._tries, keyed by order or by <<order, skip>>.    *)
(* An operation returns [err, coll, ...]: the exception raised ("none"     *)
(* when it returned) and the object as the call left it.                   *)

\* ngrams.py, Ngrams.__init__(order), order an integer
Ngrams_init(order) ==
    IF order < 1 THEN [err |-> "ValueError", coll |-> None]
    ELSE [err |-> "none",
          coll |-> [kind |-> "ngrams.Ngrams", order |-> order,
                    tries |-> [i \in 1..order |-> trie_new]]]

\* nskipgrams.py, Skipgrams.__init__(n, skip), n and skip integers
Skipgrams_init(n, skip) ==
    IF validate_n(n, FALSE, 0) # "none" THEN [err |-> "ValueError", coll |-> None]
    ELSE IF validate_skip(skip, FALSE, 0) # "none"
        THEN [err |-> "ValueError", coll |-> None]
    ELSE [err |-> "none",
          coll |-> [kind |-> "nskipgrams.Skipgrams", n |-> n, skip |-> skip,
                    tries |-> [key \in (1..n) \X (0..skip) |-> trie_new]]]

\* nskipgrams.py, Ngrams.__init__(n): super().__init__(n, skip=0)
SkipNgrams_init(n) ==
    LET r == Skipgrams_init(n, 0)
    IN  IF r.err # "none" THEN r
        ELSE [r EXCEPT !.coll = [r.coll EXCEPT !.kind = "nskipgrams.Ngrams"]]

\* The arguments a constructor is given, of any Python type: an int, a
\* float (written as its number of halves: FloatArg(3) is 1.5), a bool, a
\* str, None.
IntArg(k) == [type |-> "int", v |-> k]

FloatArg(halves) == [type |-> "float", v |-> halves]

BoolArg(b) == [type |-> "bool", v |-> IF b THEN 1 ELSE 0]

StrArg == [type |-> "str", v |-> 0]

NoneArg == [type |-> "NoneType", v |-> 0]

\* twice the number x is, for the comparisons x < 1 and x < 0
Twice(x) == IF x.type = "float" THEN x.v ELSE 2 * x.v

\* x < k raises TypeError for a str and for None
Unorderable(x) == x.type \in {"str", "NoneType"}

\* ngrams.py, Ngrams.__init__(order) with an argument of any type:
\*     if order < 1 or type(order) != int: raise ValueError
Ngrams_construct(order) ==
    IF Unorderable(order) THEN [err |-> "TypeError", coll |-> None]
    ELSE IF Twice(order) < 2 \/ order.type # "int"
        THEN [err |-> "ValueError", coll |-> None]
    ELSE Ngrams_init(order.v)

\* _validate_n(n) with an argument of any type: type(n) != int or n < 1
validate_n_arg(n) ==
    IF n.type # "int" THEN "ValueError" ELSE validate_n(n.v, FALSE, 0)

\* _validate_skip(skip) with an argument of any type
validate_skip_arg(skip) ==
    IF skip.type # "int" THEN "ValueError" ELSE validate_skip(skip.v, FALSE, 0)

\* nskipgrams.py, Skipgrams.__init__(n, skip) with arguments of any type
Skipgrams_construct(n, skip) ==
    IF validate_n_arg(n) # "none" THEN [err |-> "ValueError", coll |-> None]
    ELSE IF validate_skip_arg(skip) # "none"
        THEN [err |-> "ValueError", coll |-> None]
    ELSE Skipgrams_init(n.v, skip.v)

\* nskipgrams.py, Ngrams.__init__(n) with an argument of any type
SkipNgrams_construct(n) ==
    IF validate_n_arg(n) # "none" THEN [err |-> "ValueError", coll |-> None]
    ELSE SkipNgrams_init(n.v)

\* type(other) != Ngrams, in src/ngrams.py
IsExactlyNgrams(kind) == kind = "ngrams.Ngrams"

\* type(other) == Skipgrams in place of isinstance: a subclass is refused
IsExactlySkipgrams(kind) == kind = "nskipgrams.Skipgrams"

\* isinstance(other, Skipgrams): Ngrams of src/nskipgrams.py is a subclass
IsInstanceSkipgrams(kind) == kind \in {"nskipgrams.Skipgrams", "nskipgrams.Ngrams"}

\* the collection's max_order and max_skip as the object holds them now
MaxOrderOf(c) == IF c.kind = "ngrams.Ngrams" THEN c.order ELSE c.n

MaxSkipOf(c) == IF c.kind = "ngrams.Ngrams" THEN 0 ELSE c.skip

\* ngrams.py, Ngrams.add(ngram, count)
Ngrams_add(c, ngram, count) ==
    IF ~(1 <= Len(ngram) /\ Len(ngram) <= c.order)
        THEN [err |-> "ValueError", coll |-> c]
    ELSE [err |-> "none",
          coll |-> [c EXCEPT !.tries[Len(ngram)] =
                        trie_insert(c.tries[Len(ngram)], ngram, count)]]

\* _add with _validate_skip(skip) called without its upper bound
Skipgrams__add_skip_unbounded(c, skipgram, skip, count, validated) ==
    IF ~validated /\ ~(1 <= Len(skipgram) /\ Len(skipgram) <= c.n)
        THEN [err |-> "ValueError", coll |-> c]
    ELSE IF ~validated /\ validate_skip(skip, FALSE, 0) # "none"
        THEN [err |-> "ValueError", coll |-> c]
    ELSE IF <<Len(skipgram), skip>> \notin DOMAIN c.tries
        THEN [err |-> "KeyError", coll |-> c]
    ELSE [err |-> "none",
          coll |-> [c EXCEPT !.tries[<<Len(skipgram), skip>>] =
                        trie_insert(c.tries[<<Len(skipgram), skip>>], skipgram, count)]]

\* nskipgrams.py, Skipgrams._add(skipgram, skip, count, validated);
\* self._tries[(len(skipgram), skip)] is a plain dict: a missing key is a KeyError
Skipgrams__add(c, skipgram, skip, count, validated) ==
    IF ~validated /\ ~(1 <= Len(skipgram) /\ Len(skipgram) <= c.n)
        THEN [err |-> "ValueError", coll |-> c]
    ELSE IF ~validated /\ validate_skip(skip, TRUE, c.skip) # "none"
        THEN [err |-> "ValueError", coll |-> c]
    ELSE IF <<Len(skipgram), skip>> \notin DOMAIN c.tries
        THEN [err |-> "KeyError", coll |-> c]
    ELSE [err |-> "none",
          coll |-> [c EXCEPT !.tries[<<Len(skipgram), skip>>] =
                        trie_insert(c.tries[<<Len(skipgram), skip>>], skipgram, count)]]

\* nskipgrams.py, Skipgrams.add(skipgram, skip, count)
Skipgrams_add(c, skipgram, skip, count) ==
    Skipgrams__add(c, skipgram, skip, count, FALSE)

RECURSIVE Ngrams_add_each(_, _, _)
\* for ngram in ngrams: self.add(ngram, count=count), stopping at an exception
Ngrams_add_each(c, ngrams, count) ==
    IF ngrams = <<>> THEN [err |-> "none", coll |-> c]
    ELSE LET r == Ngrams_add(c, Head(ngrams), count)
         IN  IF r.err # "none" THEN r
             ELSE Ngrams_add_each(r.coll, Tail(ngrams), count)

RECURSIVE Ngrams_add_from_seq_from(_, _, _, _)
\* the loop over n of Ngrams.add_from_seq, from n on
Ngrams_add_from_seq_from(c, seq, count, n) ==
    IF n > Min(c.order, Len(seq)) THEN [err |-> "none", coll |-> c]
    ELSE LET r == Ngrams_add_each(c, ngrams_from_seq(seq, n), count)
         IN  IF r.err # "none" THEN r
             ELSE Ngrams_add_from_seq_from(r.coll, seq, count, n + 1)

\* ngrams.py, Ngrams.add_from_seq(seq, count)
Ngrams_add_from_seq(c, seq, count) == Ngrams_add_from_seq_from(c, seq, count, 1)

RECURSIVE Skipgrams_add_each(_, _, _, _)
\* for ngram in ngrams: self._add(ngram, skip=skip, count=count, validated=True)
Skipgrams_add_each(c, ngrams, skip, count) ==
    IF ngrams = <<>> THEN [err |-> "none", coll |-> c]
    ELSE LET r == Skipgrams__add(c, Head(ngrams), skip, count, TRUE)
         IN  IF r.err # "none" THEN r
             ELSE Skipgrams_add_each(r.coll, Tail(ngrams), skip, count)

\* the last skip of the inner loop of Skipgrams.add_from_seq:
\* range(0, max(min(self.skip, len(seq) - n) + 1, 1))
LastSkipFor(c, seq, n) == Max(Min(c.skip, Len(seq) - n) + 1, 1) - 1

RECURSIVE Skipgrams_add_from_seq_from(_, _, _, _, _)
\* the two loops of Skipgrams.add_from_seq, from (n, skip) on
Skipgrams_add_from_seq_from(c, seq, count, n, skip) ==
    IF n > Min(c.n, Len(seq)) THEN [err |-> "none", coll |-> c]
    ELSE IF skip > LastSkipFor(c, seq, n)
        THEN Skipgrams_add_from_seq_from(c, seq, count, n + 1, 0)
    ELSE LET g == skipgrams_from_seq(seq, n, skip)
             r == Skipgrams_add_each(c, g.items, skip, count)
         IN  IF r.err # "none" THEN r
             ELSE IF g.err # "none" THEN [err |-> g.err, coll |-> r.coll]
             ELSE Skipgrams_add_from_seq_from(r.coll, seq, count, n, skip + 1)

\* nskipgrams.py, Skipgrams.add_from_seq(seq, count)
Skipgrams_add_from_seq(c, seq, count) ==
    Skipgrams_add_from_seq_from(c, seq, count, 1, 0)

\* ngrams.py, Ngrams.count(ngram): self._tries[0] is a KeyError
Ngrams_count(c, ngram) ==
    IF Len(ngram) > c.order THEN [err |-> "none", val |-> 0]
    ELSE IF Len(ngram) \notin DOMAIN c.tries THEN [err |-> "KeyError", val |-> 0]
    ELSE [err |-> "none",
          val |-> count_of(get_inner_trie_from_prefix(c.tries[Len(ngram)], ngram))]

\* nskipgrams.py, Skipgrams.count(skipgram, skip)
Skipgrams_count(c, skipgram, skip) ==
    IF validate_skip(skip, TRUE, c.skip) # "none" THEN [err |-> "ValueError", val |-> 0]
    ELSE IF Len(skipgram) > c.n THEN [err |-> "none", val |-> 0]
    ELSE IF <<Len(skipgram), skip>> \notin DOMAIN c.tries
        THEN [err |-> "KeyError", val |-> 0]
    ELSE [err |-> "none",
          val |-> count_of(get_inner_trie_from_prefix(
                               c.tries[<<Len(skipgram), skip>>], skipgram))]

\* ngrams.py, Ngrams.__contains__(ngram): bool(self.count(ngram))
Ngrams_contains(c, ngram) ==
    LET r == Ngrams_count(c, ngram)
    IN  [err |-> r.err, val |-> (r.err = "none" /\ r.val # 0)]

RECURSIVE Skipgrams_contains_from(_, _, _)
\* the loop of Skipgrams.__contains__ from skip on; `x in c` is the truth
\* value of what __contains__ returns (the first non-zero count, or 0)
Skipgrams_contains_from(c, skipgram, skip) ==
    IF skip > c.skip THEN [err |-> "none", val |-> FALSE]
    ELSE LET r == Skipgrams_count(c, skipgram, skip)
         IN  IF r.err # "none" THEN [err |-> r.err, val |-> FALSE]
             ELSE IF r.val # 0 THEN [err |-> "none", val |-> TRUE]
             ELSE Skipgrams_contains_from(c, skipgram, skip + 1)

\* nskipgrams.py, Skipgrams.__contains__(skipgram)
Skipgrams_contains(c, skipgram) == Skipgrams_contains_from(c, skipgram, 0)

----------------------------------------------------------------------------
(* The object as a query leaves it.  A query reaches the tries through     *)
(* self._tries[key], a plain dict, and _get_inner_trie_from_prefix.        *)

\* c after _get_inner_trie_from_prefix(self._tries[key], prefix)
after_lookup(c, key, prefix) ==
    IF key \in DOMAIN c.tries
    THEN [c EXCEPT !.tries[key] = trie_after_lookup(@, prefix)]
    ELSE c

\* c after Ngrams.count(ngram) of src/ngrams.py
Ngrams_after_count(c, ngram) ==
    IF Len(ngram) > c.order THEN c ELSE after_lookup(c, Len(ngram), ngram)

\* c after Skipgrams.count(skipgram, skip)
Skipgrams_after_count(c, skipgram, skip) ==
    IF validate_skip(skip, TRUE, c.skip) # "none" THEN c
    ELSE IF Len(skipgram) > c.n THEN c
    ELSE after_lookup(c, <<Len(skipgram), skip>>, skipgram)

RECURSIVE Skipgrams_after_contains_from(_, _, _)
\* c after the loop of Skipgrams.__contains__ from skip on
Skipgrams_after_contains_from(c, skipgram, skip) ==
    IF skip > c.skip THEN c
    ELSE LET r  == Skipgrams_count(c, skipgram, skip)
             c2 == Skipgrams_after_count(c, skipgram, skip)
         IN  IF r.err # "none" \/ r.val # 0 THEN c2
             ELSE Skipgrams_after_contains_from(c2, skipgram, skip + 1)

----------------------------------------------------------------------------
(* Enumeration and combine. *)

\* the order argument of ngrams_with_counts / total_count: an int, an
\* iterable of ints (a list, a range) or None
OrderInt(k) == [type |-> "int", v |-> <<k>>]

OrderList(ks) == [type |-> "list", v |-> ks]

OrderNone == [type |-> "None", v |-> <<>>]

\* an order that is a float, such as 1.5: no int, no iterable, not None
OrderFloat == [type |-> "float", v |-> <<>>]

\* an order that is a str, such as "foobar": an iterable of its characters,
\* none of which is an int; chars is how many there are
OrderStr(chars) == [type |-> "str", v |-> [i \in 1..chars |-> 0]]

RECURSIVE Ngrams_yield_orders(_, _, _)
\* for n in orders: trie = self._tries[n]; yield from
\* _flattened_ngrams_with_counts(trie, prefix), consumed to the end
Ngrams_yield_orders(c, orders, prefix) ==
    IF orders = <<>> THEN [err |-> "none", items |-> <<>>]
    ELSE IF Head(orders) \notin DOMAIN c.tries THEN [err |-> "KeyError", items |-> <<>>]
    ELSE LET g == flattened_ngrams_with_counts(c.tries[Head(orders)], prefix)
         IN  IF g.err # "none" THEN g
             ELSE LET rest == Ngrams_yield_orders(c, Tail(orders), prefix)
                  IN  [err |-> rest.err, items |-> g.items \o rest.items]

\* ngrams.py, Ngrams.ngrams_with_counts(order, prefix), consumed to the end
Ngrams_ngrams_with_counts(c, order, prefix) ==
    IF order.type = "int" THEN Ngrams_yield_orders(c, order.v, prefix)
    ELSE IF order.type \in {"list", "str"}
        THEN IF order.type = "str" /\ order.v # <<>>
             THEN [err |-> "ValueError", items |-> <<>>]
             ELSE Ngrams_yield_orders(c, order.v, prefix)
    ELSE IF order.type = "None"
        THEN Ngrams_yield_orders(c, Range(1, c.order + 1), prefix)
    ELSE [err |-> "ValueError", items |-> <<>>]

RECURSIVE SumCounts(_)
\* sum(count for _, count in pairs)
SumCounts(pairs) ==
    IF pairs = <<>> THEN 0 ELSE Head(pairs).count + SumCounts(Tail(pairs))

\* ngrams.py, Ngrams.total_count(order, unique)
Ngrams_total_count(c, order, unique) ==
    LET g == Ngrams_ngrams_with_counts(c, order, PyNone)
    IN  IF g.err # "none" THEN [err |-> g.err, val |-> 0]
        ELSE [err |-> "none",
              val |-> IF unique THEN Len(g.items) ELSE SumCounts(g.items)]

\* nskipgrams.py, Skipgrams._skipgrams_with_counts(n, skip, prefix, validated)
Skipgrams__skipgrams_with_counts(c, n, skip, prefix, validated) ==
    IF ~validated /\ validate_n(n, TRUE, c.n) # "none"
        THEN [err |-> "ValueError", items |-> <<>>]
    ELSE IF ~validated /\ validate_skip(skip, TRUE, c.skip) # "none"
        THEN [err |-> "ValueError", items |-> <<>>]
    ELSE IF <<n, skip>> \notin DOMAIN c.tries THEN [err |-> "KeyError", items |-> <<>>]
    ELSE flattened_ngrams_with_counts(c.tries[<<n, skip>>], prefix)

\* nskipgrams.py, Skipgrams.skipgrams_with_counts(n, skip, prefix)
Skipgrams_skipgrams_with_counts(c, n, skip, prefix) ==
    Skipgrams__skipgrams_with_counts(c, n, skip, prefix, FALSE)

\* nskipgrams.py, Ngrams.ngrams_with_counts(n, prefix)
SkipNgrams_ngrams_with_counts(c, n, prefix) ==
    Skipgrams_skipgrams_with_counts(c, n, 0, prefix)

\* an argument of combine: one of the collection objects (by identity), or
\* a value of another class (obj is the class): the string "foobar", or a
\* collection of the other module, constructed for the call
ArgColl(id) == [obj |-> "coll", id |-> id]

ArgStr == [obj |-> "str", id |-> 0]

ArgOfClass(class) == [obj |-> class, id |-> 0]

\* type(other)
KindOf(heap, arg) == IF arg.obj = "coll" THEN heap[arg.id].kind ELSE arg.obj

RECURSIVE Ngrams_add_pairs(_, _)
\* for ngram, count in pairs: self.add(ngram, count)
Ngrams_add_pairs(c, pairs) ==
    IF pairs = <<>> THEN [err |-> "none", coll |-> c]
    ELSE LET r == Ngrams_add(c, Head(pairs).ngram.items, Head(pairs).count)
         IN  IF r.err # "none" THEN r ELSE Ngrams_add_pairs(r.coll, Tail(pairs))

RECURSIVE Ngrams_combine_from_all_orders(_, _, _, _)
\* combine with order = range(1, other.order + 1): the orders of other are
\* not cut to self.order
Ngrams_combine_from_all_orders(c, heap, others, i) ==
    IF i > Len(others) THEN [err |-> "none", coll |-> c, at |-> 0]
    ELSE IF ~IsExactlyNgrams(KindOf(heap, others[i]))
        THEN [err |-> "TypeError", coll |-> c, at |-> i]
    ELSE LET other == heap[others[i].id]
             g == Ngrams_ngrams_with_counts(other,
                      OrderList(Range(1, other.order + 1)), PyNone)
             r == Ngrams_add_pairs(c, g.items)
         IN  IF r.err # "none" THEN [err |-> r.err, coll |-> r.coll, at |-> i]
             ELSE IF g.err # "none" THEN [err |-> g.err, coll |-> r.coll, at |-> i]
             ELSE Ngrams_combine_from_all_orders(r.coll, heap, others, i + 1)

RECURSIVE Ngrams_combine_from(_, _, _, _)
\* the loop of Ngrams.combine from others[i] on; at is the position of the
\* argument during which the exception was raised
Ngrams_combine_from(c, heap, others, i) ==
    IF i > Len(others) THEN [err |-> "none", coll |-> c, at |-> 0]
    ELSE IF ~IsExactlyNgrams(KindOf(heap, others[i]))
        THEN [err |-> "TypeError", coll |-> c, at |-> i]
    ELSE LET other == heap[others[i].id]
             g == Ngrams_ngrams_with_counts(other,
                      OrderList(Range(1, Min(other.order, c.order) + 1)), PyNone)
             r == Ngrams_add_pairs(c, g.items)
         IN  IF r.err # "none" THEN [err |-> r.err, coll |-> r.coll, at |-> i]
             ELSE IF g.err # "none" THEN [err |-> g.err, coll |-> r.coll, at |-> i]
             ELSE Ngrams_combine_from(r.coll, heap, others, i + 1)

\* ngrams.py, Ngrams.combine(*others)
Ngrams_combine(c, heap, others) == Ngrams_combine_from(c, heap, others, 1)

RECURSIVE Skipgrams_add_pairs(_, _, _)
\* for ngram, count in pairs: self._add(ngram, skip, count, validated=True)
Skipgrams_add_pairs(c, pairs, skip) ==
    IF pairs = <<>> THEN [err |-> "none", coll |-> c]
    ELSE LET r == Skipgrams__add(c, Head(pairs).ngram.items, skip,
                                 Head(pairs).count, TRUE)
         IN  IF r.err # "none" THEN r
             ELSE Skipgrams_add_pairs(r.coll, Tail(pairs), skip)

RECURSIVE Skipgrams_merge_from(_, _, _, _)
\* the loops over n and skip of Skipgrams.combine for one other, from
\* (n, skip) on
Skipgrams_merge_from(c, other, n, skip) ==
    IF n > other.n THEN [err |-> "none", coll |-> c]
    ELSE IF skip > other.skip THEN Skipgrams_merge_from(c, other, n + 1, 0)
    ELSE LET g == Skipgrams__skipgrams_with_counts(other, n, skip, PyNone, TRUE)
             r == Skipgrams_add_pairs(c, g.items, skip)
         IN  IF r.err # "none" THEN r
             ELSE IF g.err # "none" THEN [err |-> g.err, coll |-> r.coll]
             ELSE Skipgrams_merge_from(r.coll, other, n, skip + 1)

\* if other.n > self.n: self.n = other.n
\* if other.skip > self.skip: self.skip = other.skip
Skipgrams_raise_bounds(c, other) ==
    [c EXCEPT !.n = IF other.n > c.n THEN other.n ELSE c.n,
              !.skip = IF other.skip > c.skip THEN other.skip ELSE c.skip]

RECURSIVE Skipgrams_combine_from(_, _, _, _)
\* the loop of Skipgrams.combine from others[i] on
Skipgrams_combine_from(c, heap, others, i) ==
    IF i > Len(others) THEN [err |-> "none", coll |-> c, at |-> 0]
    ELSE IF ~IsInstanceSkipgrams(KindOf(heap, others[i]))
        THEN [err |-> "TypeError", coll |-> c, at |-> i]
    ELSE LET other == heap[others[i].id]
             r == Skipgrams_merge_from(Skipgrams_raise_bounds(c, other), other, 1, 0)
         IN  IF r.err # "none" THEN [err |-> r.err, coll |-> r.coll, at |-> i]
             ELSE Skipgrams_combine_from(r.coll, heap, others, i + 1)

\* combine with the types of all the arguments tested before the first merge
Skipgrams_combine_types_first(c, heap, others) ==
    LET bad == {i \in 1..Len(others) : ~IsInstanceSkipgrams(KindOf(heap, others[i]))}
    IN  IF bad = {} THEN Skipgrams_combine_from(c, heap, others, 1)
        ELSE [err |-> "TypeError", coll |-> c,
              at |-> CHOOSE i \in bad : \A j \in bad : i <= j]

\* nskipgrams.py, Skipgrams.combine(*others)
Skipgrams_combine(c, heap, others) == Skipgrams_combine_from(c, heap, others, 1)

----------------------------------------------------------------------------
(* The calls a client makes on an object, dispatched on its class. *)

IsPlain(c) == c.kind = "ngrams.Ngrams"

\* obj.add(entry, skip, count); Ngrams.add of src/ngrams.py has no skip
\* parameter and is only called with skip = 0 here
CallAdd(c, entry, skip, count) ==
    IF IsPlain(c) THEN Ngrams_add(c, entry, count)
    ELSE Skipgrams_add(c, entry, skip, count)

\* obj.add_from_seq(seq, count)
CallAddFromSeq(c, seq, count) ==
    IF IsPlain(c) THEN Ngrams_add_from_seq(c, seq, count)
    ELSE Skipgrams_add_from_seq(c, seq, count)

\* obj.combine(*others)
CallCombine(c, heap, others) ==
    IF IsPlain(c) THEN Ngrams_combine(c, heap, others)
    ELSE Skipgrams_combine(c, heap, others)

\* obj.count(entry, skip)
CallCount(c, entry, skip) ==
    IF IsPlain(c) THEN Ngrams_count(c, entry) ELSE Skipgrams_count(c, entry, skip)

\* entry in obj
CallContains(c, entry) ==
    IF IsPlain(c) THEN Ngrams_contains(c, entry) ELSE Skipgrams_contains(c, entry)

RECURSIVE Ngrams_after_yield_orders(_, _, _)
\* c after the loop over orders of Ngrams.ngrams_with_counts, consumed
Ngrams_after_yield_orders(c, orders, prefix) ==
    IF orders = <<>> THEN c
    ELSE IF Head(orders) \notin DOMAIN c.tries THEN c
    ELSE LET c2 == after_lookup(c, Head(orders), OrEmptyTuple(prefix).items)
         IN  IF flattened_ngrams_with_counts(c.tries[Head(orders)], prefix).err # "none"
             THEN c2
             ELSE Ngrams_after_yield_orders(c2, Tail(orders), prefix)

\* c after list(Ngrams.ngrams_with_counts(order, prefix)) of src/ngrams.py
Ngrams_after_ngrams_with_counts(c, order, prefix) ==
    IF order.type = "int" \/ order.type = "list" \/ (order.type = "str" /\ order.v = <<>>)
        THEN Ngrams_after_yield_orders(c, order.v, prefix)
    ELSE IF order.type = "None"
        THEN Ngrams_after_yield_orders(c, Range(1, c.order + 1), prefix)
    ELSE c

\* c after list(Skipgrams.skipgrams_with_counts(n, skip, prefix))
Skipgrams_after_skipgrams_with_counts(c, n, skip, prefix) ==
    IF validate_n(n, TRUE, c.n) # "none" \/ validate_skip(skip, TRUE, c.skip) # "none"
    THEN c
    ELSE after_lookup(c, <<n, skip>>, OrEmptyTuple(prefix).items)

\* the object after obj.count(entry, skip)
AfterCount(c, entry, skip) ==
    IF IsPlain(c) THEN Ngrams_after_count(c, entry)
    ELSE Skipgrams_after_count(c, entry, skip)

\* the object after `entry in obj`
AfterContains(c, entry) ==
    IF IsPlain(c) THEN Ngrams_after_count(c, entry)
    ELSE Skipgrams_after_contains_from(c, entry, 0)

\* the object after obj.total_count(order, unique)
AfterTotalCount(c, order) ==
    IF IsPlain(c) THEN Ngrams_after_ngrams_with_counts(c, order, PyNone) ELSE c

\* obj.total_count(order, unique): the classes of src/nskipgrams.py have no
\* such method
CallTotalCount(c, order, unique) ==
    IF IsPlain(c) THEN Ngrams_total_count(c, order, unique)
    ELSE [err |-> "AttributeError", val |-> 0]

\* obj.ngrams_with_counts(n, prefix=prefix) for one order n, or, on a
\* Skipgrams, obj.skipgrams_with_counts(n, skip, prefix)
CallWithCounts(c, n, skip, prefix) ==
    IF IsPlain(c) THEN Ngrams_ngrams_with_counts(c, OrderInt(n), prefix)
    ELSE IF c.kind = "nskipgrams.Ngrams" THEN SkipNgrams_ngrams_with_counts(c, n, prefix)
    ELSE Skipgrams_skipgrams_with_counts(c, n, skip, prefix)

\* list(obj.ngrams_with_counts(order, prefix)) with an order argument of
\* any type on an Ngrams of src/ngrams.py; on the classes of
\* src/nskipgrams.py, where order is an int n,
\* list(obj.ngrams_with_counts(n, prefix)) or
\* list(obj.skipgrams_with_counts(n, skip, prefix))
CallEnumerate(c, order, skip, prefix) ==
    IF IsPlain(c) THEN Ngrams_ngrams_with_counts(c, order, prefix)
    ELSE CallWithCounts(c, order.v[1], skip, prefix)

\* the object after that enumeration
AfterEnumerate(c, order, skip, prefix) ==
    IF IsPlain(c) THEN Ngrams_after_ngrams_with_counts(c, order, prefix)
    ELSE Skipgrams_after_skipgrams_with_counts(c, order.v[1],
             IF c.kind = "nskipgrams.Ngrams" THEN 0 ELSE skip, prefix)

----------------------------------------------------------------------------
(* The state machine: two collection objects and a client that calls       *)
(* add, add_from_seq and combine on them.                                  *)

Ids == {1, 2}

\* the objects the constructors of src/ngrams.py return for valid arguments
ConstructedPlain == {Ngrams_init(n).coll : n \in 1..MaxOrder}

\* the objects the constructors of src/nskipgrams.py return for valid arguments
ConstructedSkip ==
    {Skipgrams_init(n, k).coll : n \in 1..MaxOrder, k \in 0..MaxSkip}
        \cup {SkipNgrams_init(n).coll : n \in 1..MaxOrder}

\* a call and its outcome; mutated says whether it changed its object
Call(op, id, entry, skip, count, seq, others, err, at, mutated) ==
    [op |-> op, id |-> id, entry |-> entry, skip |-> skip, count |-> count,
     seq |-> seq, others |-> others, err |-> err, at |-> at, mutated |-> mutated]

NoCall == Call("none", 0, <<>>, 0, 0, <<>>, <<>>, "none", 0, FALSE)

WinIdle == [seq |-> <<>>, n |-> 0, skip |-> 0, done |-> FALSE,
            ngrams |-> <<>>, skipgrams |-> [err |-> "none", items |-> <<>>],
            indices |-> <<>>]

\* no constructor call and no query has been made
NoQuery == [op |-> "none", pc |-> "idle", err |-> "none"]

NoLedger == [k \in {} |-> 0]

LedgerGet(l, key) == IF key \in DOMAIN l THEN l[key] ELSE 0

LedgerAdd(l, key, count) ==
    [k \in (DOMAIN l) \cup {key} |->
        IF k = key THEN LedgerGet(l, key) + count ELSE l[k]]

\* the two objects are of the same module: both of src/ngrams.py or both
\* of src/nskipgrams.py
Init ==
    /\ colls \in [Ids -> ConstructedPlain] \cup [Ids -> ConstructedSkip]
    /\ ledger = [id \in Ids |-> NoLedger]
    /\ onlyAdds = [id \in Ids |-> TRUE]
    /\ last = NoCall
    /\ budget = MaxSteps
    /\ win = WinIdle
    /\ query = NoQuery
    /\ nodes = <<>>

\* The client goes on after a call that returned, and after one that raised
\* having changed its object.  A call that raised and changed nothing leaves
\* a state that differs from the one before it only in last, which every
\* call overwrites: the calls that could follow it are the ones that could
\* have been made in its place, and they are not explored a second time.
CanCall ==
    /\ budget > 0
    /\ last.err = "none" \/ last.mutated
    /\ query.pc = "idle"

\* the entries a client passes to add: every entry of a length up to
\* MaxOrder, the empty one included, and one that is longer than any
\* max_order a collection is constructed with
EntryArgs == SeqsUpTo(MaxOrder) \cup {[i \in 1..(MaxOrder + 1) |-> "a"]}

\* the skip arguments a client passes to add: Ngrams.add of src/ngrams.py
\* takes none
SkipArgs(c) == IF IsPlain(c) THEN {0} ELSE -1..(MaxSkip + 1)

\* colls[id].add(entry, skip, count)
Add(id, entry, skip, count) ==
    /\ CanCall
    /\ skip \in SkipArgs(colls[id])
    /\ \E r \in {CallAdd(colls[id], entry, skip, count)} :
           /\ colls' = [colls EXCEPT ![id] = r.coll]
           /\ ledger' = IF r.err = "none" /\ onlyAdds[id]
                          THEN [ledger EXCEPT ![id] = LedgerAdd(@, <<entry, skip>>, count)]
                          ELSE ledger
           /\ last' = Call("add", id, entry, skip, count, <<>>, <<>>, r.err, 0,
                            r.coll # colls[id])
    /\ budget' = budget - 1
    /\ UNCHANGED <<onlyAdds, win, query, nodes>>

\* colls[id].add_from_seq(seq, count)
AddFromSeq(id, seq, count) ==
    /\ CanCall
    /\ \E r \in {CallAddFromSeq(colls[id], seq, count)} :
           /\ colls' = [colls EXCEPT ![id] = r.coll]
           /\ last' = Call("add_from_seq", id, <<>>, 0, count, seq, <<>>, r.err, 0,
                            r.coll # colls[id])
    /\ onlyAdds' = [onlyAdds EXCEPT ![id] = FALSE]
    /\ ledger' = [ledger EXCEPT ![id] = NoLedger]
    /\ budget' = budget - 1
    /\ UNCHANGED <<win, query, nodes>>

\* the argument lists of colls[id].combine(*others): one or two arguments,
\* each the other object, the string "foobar", or a collection of the
\* other module (an Ngrams of src/ngrams.py for an object of
\* src/nskipgrams.py, a Skipgrams of src/nskipgrams.py for an Ngrams of
\* src/ngrams.py)
OtherArgs(id) ==
    LET vals == {ArgColl(o) : o \in Ids \ {id}} \cup {ArgStr}
                  \cup {ArgOfClass(IF IsPlain(colls[id]) THEN "nskipgrams.Skipgrams"
                                    ELSE "ngrams.Ngrams")}
    IN  UNION {[1..k -> vals] : k \in 1..2}

\* colls[id].combine(*others)
Combine(id, others) ==
    /\ CanCall
    /\ \E r \in {CallCombine(colls[id], colls, others)} :
           /\ colls' = [colls EXCEPT ![id] = r.coll]
           /\ last' = Call("combine", id, <<>>, 0, 0, <<>>, others, r.err, r.at,
                            r.coll # colls[id])
    /\ onlyAdds' = [onlyAdds EXCEPT ![id] = FALSE]
    /\ ledger' = [ledger EXCEPT ![id] = NoLedger]
    /\ budget' = budget - 1
    /\ UNCHANGED <<win, query, nodes>>

Next ==
    \/ \E id \in Ids, entry \in EntryArgs,
          skip \in -1..(MaxSkip + 1), count \in 1..MaxCount :
            Add(id, entry, skip, count)
    \/ \E id \in Ids, seq \in SeqsUpTo(MaxSeqLen), count \in 1..MaxCount :
            AddFromSeq(id, seq, count)
    \/ \E id \in Ids : \E others \in OtherArgs(id) : Combine(id, others)

Spec == Init /\ [][Next]_vars

----------------------------------------------------------------------------
(* Two Ngrams objects of src/ngrams.py and one call more: the first is     *)
(* fed, the second is fed, the first combines the second.                  *)

InitPlain ==
    /\ colls \in [Ids -> ConstructedPlain]
    /\ ledger = [id \in Ids |-> NoLedger]
    /\ onlyAdds = [id \in Ids |-> TRUE]
    /\ last = NoCall
    /\ budget = MaxStepsPlain
    /\ win = WinIdle
    /\ query = NoQuery
    /\ nodes = <<>>

SpecPlain == InitPlain /\ [][Next]_vars

----------------------------------------------------------------------------
(* The queries: the client feeds one of two objects a sequence and makes   *)
(* one query of it.  ngrams_with_counts, skipgrams_with_counts and         *)
(* skipgrams_from_seq are generator functions: the call returns a          *)
(* generator and runs none of the body, which runs when the generator is   *)
(* consumed.                                                               *)

\* the two objects are constructed alike, by the same constructor with the
\* same arguments
InitQ ==
    /\ colls \in {[id \in Ids |-> c] : c \in ConstructedPlain \cup ConstructedSkip}
    /\ ledger = [id \in Ids |-> NoLedger]
    /\ onlyAdds = [id \in Ids |-> TRUE]
    /\ last = NoCall
    /\ budget = MaxStepsQ
    /\ win = WinIdle
    /\ query = NoQuery
    /\ nodes = <<>>

\* One query is made, of the object that was fed or, before any is fed, of
\* either.  A query that leaves the objects as they are is followed by
\* nothing, the state after it being the state before it.
CanQuery(id) == query.pc = "idle" /\ (last = NoCall \/ id = last.id)

\* the order arguments of the enumeration and of total_count: on an Ngrams
\* of src/ngrams.py None, an int, a list of ints, a float and a str; on
\* the classes of src/nskipgrams.py the int n
OrderQueryArgs(c) ==
    {OrderInt(k) : k \in 0..(MaxOrder + 1)}
        \cup (IF IsPlain(c)
              THEN {OrderNone, OrderFloat, OrderStr(0), OrderStr(2)}
                     \cup {OrderList(ks) :
                              ks \in UNION {[1..m -> 1..MaxOrder] : m \in 0..2}}
              ELSE {})

\* the prefix arguments: None, a tuple of tokens, a str of characters
PrefixArgs ==
    {PyNone} \cup {PyTuple(p) : p \in SeqsUpTo(MaxOrder)}
             \cup {PyStr(p) : p \in SeqsUpTo(MaxOrder)}

\* the skip arguments of a query: skipgrams_with_counts of a Skipgrams
\* takes one, count of the classes of src/nskipgrams.py takes one
SkipQueryArgs(c, op) ==
    IF IsPlain(c) \/ (op = "with_counts" /\ c.kind = "nskipgrams.Ngrams")
    THEN {0} ELSE -1..(MaxSkip + 1)

\* colls[id].count(entry, skip)
Count(id, entry, skip) ==
    /\ CanQuery(id)
    /\ skip \in SkipQueryArgs(colls[id], "count")
    /\ \E r \in {CallCount(colls[id], entry, skip)} :
          query' = [op |-> "count", pc |-> "done", err |-> r.err, id |-> id,
                    entry |-> entry, skip |-> skip, val |-> r.val]
    /\ colls' = [colls EXCEPT ![id] = AfterCount(@, entry, skip)]
    /\ UNCHANGED <<ledger, onlyAdds, last, budget, win, nodes>>

\* entry in colls[id]
Contains(id, entry) ==
    /\ CanQuery(id)
    /\ \E r \in {CallContains(colls[id], entry)} :
          query' = [op |-> "contains", pc |-> "done", err |-> r.err, id |-> id,
                    entry |-> entry, val |-> r.val]
    /\ colls' = [colls EXCEPT ![id] = AfterContains(@, entry)]
    /\ UNCHANGED <<ledger, onlyAdds, last, budget, win, nodes>>

\* colls[id].total_count(order, unique)
TotalCount(id, order, unique) ==
    /\ CanQuery(id)
    /\ order \in OrderQueryArgs(colls[id])
    /\ \E r \in {CallTotalCount(colls[id], order, unique)} :
          query' = [op |-> "total_count", pc |-> "done", err |-> r.err, id |-> id,
                    order |-> order, unique |-> unique, val |-> r.val]
    /\ colls' = [colls EXCEPT ![id] = AfterTotalCount(@, order)]
    /\ UNCHANGED <<ledger, onlyAdds, last, budget, win, nodes>>

\* g = colls[id].ngrams_with_counts(order, prefix), or on a Skipgrams
\* g = colls[id].skipgrams_with_counts(n, skip, prefix): the call of a
\* generator function returns the generator
WithCounts(id, order, skip, prefix) ==
    /\ CanQuery(id)
    /\ order \in OrderQueryArgs(colls[id])
    /\ skip \in SkipQueryArgs(colls[id], "with_counts")
    /\ query' = [op |-> "with_counts", pc |-> "created", err |-> "none", id |-> id,
                 order |-> order, skip |-> skip, prefix |-> prefix, items |-> <<>>]
    /\ UNCHANGED <<colls, ledger, onlyAdds, last, budget, win, nodes>>

\* g = skipgrams_from_seq(seq, n, skip), made before the calls on the objects
SkipgramsFromSeq(seq, n, skip) ==
    /\ query.pc = "idle"
    /\ last = NoCall
    /\ query' = [op |-> "skipgrams_from_seq", pc |-> "created", err |-> "none",
                 seq |-> seq, n |-> n, skip |-> skip, items |-> <<>>]
    /\ UNCHANGED <<colls, ledger, onlyAdds, last, budget, win, nodes>>

\* list(g): the body of the generator function runs, to its end or to the
\* exception it raises
Consume ==
    /\ query.pc = "created"
    /\ IF query.op = "with_counts"
       THEN /\ \E r \in {CallEnumerate(colls[query.id], query.order,
                                       query.skip, query.prefix)} :
                  query' = [query EXCEPT !.pc = "done", !.err = r.err,
                                         !.items = r.items]
            /\ colls' = [colls EXCEPT ![query.id] =
                            AfterEnumerate(@, query.order, query.skip, query.prefix)]
       ELSE /\ \E r \in {skipgrams_from_seq(query.seq, query.n, query.skip)} :
                  query' = [query EXCEPT !.pc = "done", !.err = r.err,
                                         !.items = r.items]
            /\ colls' = colls
    /\ UNCHANGED <<ledger, onlyAdds, last, budget, win, nodes>>

NextQ ==
    \/ \E id \in Ids, seq \in SeqsUpTo(MaxSeqLen) : AddFromSeq(id, seq, 1)
    \/ \E id \in Ids, entry \in SeqsUpTo(MaxOrder + 1), skip \in -1..(MaxSkip + 1) :
            Count(id, entry, skip)
    \/ \E id \in Ids, entry \in SeqsUpTo(MaxOrder + 1) : Contains(id, entry)
    \/ \E id \in Ids, unique \in BOOLEAN :
            \E order \in OrderQueryArgs(colls[id]) : TotalCount(id, order, unique)
    \/ \E id \in Ids, skip \in -1..(MaxSkip + 1), prefix \in PrefixArgs :
            \E order \in OrderQueryArgs(colls[id]) : WithCounts(id, order, skip, prefix)
    \/ \E seq \in SeqsUpTo(MaxSeqLenQ), n \in 0..(MaxSeqLenQ + 1),
          skip \in -1..(MaxSeqLenQ + 1) : SkipgramsFromSeq(seq, n, skip)
    \/ Consume

SpecQ == InitQ /\ [][NextQ]_vars

----------------------------------------------------------------------------
(* The constructors on their own: one call of a constructor, with          *)
(* arguments of any type, that binds an object to a name when it returns.  *)

\* the values a constructor is given for n / order
OrderArgs ==
    {IntArg(k) : k \in -1..(MaxOrder + 1)}
        \cup {FloatArg(h) : h \in {1, 3, 4}}
        \cup {BoolArg(b) : b \in BOOLEAN} \cup {StrArg, NoneArg}

\* the values a constructor is given for skip
SkipCtorArgs ==
    {IntArg(k) : k \in -1..(MaxSkip + 1)}
        \cup {FloatArg(h) : h \in {-1, 1, 2}}
        \cup {BoolArg(b) : b \in BOOLEAN} \cup {StrArg, NoneArg}

Classes == {"ngrams.Ngrams", "nskipgrams.Skipgrams", "nskipgrams.Ngrams"}

\* cls(n) or cls(n, skip)
CallConstruct(class, n, skip) ==
    IF class = "ngrams.Ngrams" THEN Ngrams_construct(n)
    ELSE IF class = "nskipgrams.Ngrams" THEN SkipNgrams_construct(n)
    ELSE Skipgrams_construct(n, skip)

\* no object is bound to either name
InitNew ==
    /\ colls = [id \in Ids |-> None]
    /\ ledger = [id \in Ids |-> NoLedger]
    /\ onlyAdds = [id \in Ids |-> TRUE]
    /\ last = NoCall
    /\ budget = 0
    /\ win = WinIdle
    /\ query = NoQuery
    /\ nodes = <<>>

\* name_id = cls(n, skip); the classes with no skip parameter are called
\* with n alone
Construct(id, class, n, skip) ==
    /\ query.pc = "idle"
    /\ class # "nskipgrams.Skipgrams" => skip = IntArg(0)
    /\ \E r \in {CallConstruct(class, n, skip)} :
          /\ colls' = IF r.err = "none" THEN [colls EXCEPT ![id] = r.coll] ELSE colls
          /\ query' = [op |-> "construct", pc |-> "done", err |-> r.err,
                       id |-> id, class |-> class, n |-> n, skip |-> skip]
    /\ UNCHANGED <<ledger, onlyAdds, last, budget, win, nodes>>

NextNew ==
    \E id \in Ids, class \in Classes, n \in OrderArgs, skip \in SkipCtorArgs :
        Construct(id, class, n, skip)

SpecNew == InitNew /\ [][NextNew]_vars

----------------------------------------------------------------------------
(* The windowing functions on their own: one call of ngrams_from_seq and   *)
(* skipgrams_from_seq on arguments drawn from the bounded sets.            *)

InitW ==
    /\ colls = [id \in Ids |-> Ngrams_init(1).coll]
    /\ ledger = [id \in Ids |-> NoLedger]
    /\ onlyAdds = [id \in Ids |-> TRUE]
    /\ last = NoCall
    /\ budget = 0
    /\ \E seq \in SeqsUpTo(MaxWinLen), n \in 0..(MaxWinLen + 1),
          skip \in 0..(MaxWinLen + 1) :
            win = [WinIdle EXCEPT !.seq = seq, !.n = n, !.skip = skip]
    /\ query = NoQuery
    /\ nodes = <<>>

\* list(ngrams_from_seq(seq, n)) and list(skipgrams_from_seq(seq, n, skip));
\* indices are the positions in seq of the tokens of each skipgram yielded
RunWindow ==
    /\ ~win.done
    /\ \E g \in {skipgrams_from_seq(win.seq, win.n, win.skip)} :
         win' = [win EXCEPT !.done = TRUE,
                            !.ngrams = ngrams_from_seq(win.seq, win.n),
                            !.skipgrams = g,
                            !.indices = IF g.err = "none"
                                        THEN YieldedIndices(win.seq, win.n, win.skip)
                                        ELSE <<>>]
    /\ UNCHANGED <<colls, ledger, onlyAdds, last, budget, query, nodes>>

NextW == RunWindow

SpecW == InitW /\ [][NextW]_vars

----------------------------------------------------------------------------
(* Claims about the windowing functions, checked under SpecW. *)

\* number of positions of s that hold x
CountIn(s, x) == Cardinality({i \in 1..Len(s) : s[i] = x})

\* no element of s occurs twice
NoDuplicates(s) == \A i, j \in 1..Len(s) : s[i] = s[j] => i = j

\* C5: ngrams_from_seq(seq, n) yields, left to right, exactly the contiguous
\* windows seq[i..i+n-1]: for 1 <= n <= len(seq) it yields len(seq)-n+1
\* tuples, the i-th being the window that starts at i, and for n > len(seq)
\* it yields nothing.
C5_NgramsAreTheWindows ==
    win.done =>
        /\ (1 <= win.n /\ win.n <= Len(win.seq)) =>
              /\ Len(win.ngrams) = Len(win.seq) - win.n + 1
              /\ \A i \in 1..Len(win.ngrams) :
                    win.ngrams[i] = SubSeq(win.seq, i, i + win.n - 1)
        /\ win.n > Len(win.seq) => win.ngrams = <<>>

\* a call that yields three overlapping windows of two tokens, "abab" -> ab ba ab
C5_Witness ==
    /\ win.done
    /\ win.seq = <<"a", "b", "a", "b">>
    /\ win.n = 2
    /\ win.ngrams = << <<"a", "b">>, <<"b", "a">>, <<"a", "b">> >>

\* The reference algorithm of the specification for skipgrams_from_seq,
\* written on its own definitions: for each window start k = 0..len(seq)-n,
\* every ascending n-combination of offsets of a window of width
\* min(skip+n, len(seq)-k), shifted by k and taken in lexicographic order;
\* an index tuple that was seen is not taken again.
RefAscending(lo, hi, n) ==
    {t \in [1..n -> lo..hi] : \A i \in 1..(n - 1) : t[i] < t[i + 1]}

RefLexLess(t, u) ==
    \E i \in 1..Len(t) : t[i] < u[i] /\ \A j \in 1..(i - 1) : t[j] = u[j]

RECURSIVE RefSorted(_)
RefSorted(S) ==
    IF S = {} THEN <<>>
    ELSE LET m == CHOOSE t \in S : \A u \in S \ {t} : RefLexLess(t, u)
         IN  <<m>> \o RefSorted(S \ {m})

RECURSIVE RefAppendNew(_, _)
RefAppendNew(acc, ts) ==
    IF ts = <<>> THEN acc
    ELSE RefAppendNew(IF \E i \in 1..Len(acc) : acc[i] = Head(ts)
                         THEN acc ELSE acc \o <<Head(ts)>>,
                      Tail(ts))

RECURSIVE RefIndicesFrom(_, _, _, _, _)
RefIndicesFrom(len, n, skip, k, acc) ==
    IF k > len - n THEN acc
    ELSE LET w == IF skip + n <= len - k THEN skip + n ELSE len - k
         IN  RefIndicesFrom(len, n, skip, k + 1,
                 RefAppendNew(acc, RefSorted(RefAscending(k, k + w - 1, n))))

RefIndices(len, n, skip) == RefIndicesFrom(len, n, skip, 0, <<>>)

\* C6: for 1 <= n <= len(seq) and 0 <= skip <= len(seq), skipgrams_from_seq
\* yields the sequence of the reference algorithm, token tuple by token
\* tuple; the index tuples behind it are de-duplicated by position: every
\* ascending index tuple with last - first <= skip + n - 1 is yielded
\* exactly once, and no other tuple is.
C6_SkipgramsAreTheReference ==
    (/\ win.done
     /\ 1 <= win.n /\ win.n <= Len(win.seq)
     /\ win.skip <= Len(win.seq)) =>
        LET ref == RefIndices(Len(win.seq), win.n, win.skip)
        IN  /\ win.skipgrams.err = "none"
            /\ win.skipgrams.items =
                  [j \in 1..Len(ref) |-> [p \in 1..win.n |-> win.seq[ref[j][p] + 1]]]
            /\ win.indices = ref
            /\ NoDuplicates(win.indices)
            /\ Elems(win.indices) =
                  {t \in RefAscending(0, Len(win.seq) - 1, win.n) :
                      t[win.n] - t[1] <= win.skip + win.n - 1}

\* a call in which windows overlap and tokens repeat: "abab", n = 2,
\* skip = 1 yields ab aa ba bb ab (positions 01 02 12 13 23), the index
\* tuple 12 being met in the windows at 0 and at 1 and ab being yielded
\* for two different positions
C6_Witness ==
    /\ win.done
    /\ win.seq = <<"a", "b", "a", "b">>
    /\ win.n = 2
    /\ win.skip = 1
    /\ win.skipgrams.err = "none"
    /\ win.skipgrams.items =
          << <<"a", "b">>, <<"a", "a">>, <<"b", "a">>, <<"b", "b">>, <<"a", "b">> >>

----------------------------------------------------------------------------
(* Claims about add, count and add_from_seq, checked under Spec. *)

\* the entries the claims are read for: every non-empty token sequence of
\* a length up to MaxOrder + 1
Entries == SeqsUpTo(MaxOrder + 1) \ {<<>>}

\* the skips a count() on c may name: 0..max_skip (0 alone for src/ngrams.py)
SkipsOf(c) == 0..MaxSkipOf(c)

Returned(v) == [err |-> "none", val |-> v]

\* C1: after any sequence of add calls on a collection (of src/ngrams.py
\* or of src/nskipgrams.py), count(e, skip) is the sum of the count
\* arguments of the successful adds of the same tokens and the same skip,
\* and 0 when there is none: adds of other entries, of entries that share
\* a prefix, of another length or of another skip do not change it.
C1_CountIsSumOfAdds ==
    \A id \in Ids :
        onlyAdds[id] =>
            \A e \in Entries, skip \in SkipsOf(colls[id]) :
                CallCount(colls[id], e, skip)
                    = Returned(LedgerGet(ledger[id], <<e, skip>>))

\* the same entry of two tokens added twice, with the counts 1 and 2, to
\* an object that holds nothing else
C1_Witness ==
    /\ last.op = "add" /\ last.err = "none"
    /\ Len(last.entry) = 2
    /\ onlyAdds[last.id]
    /\ budget = MaxSteps - 2
    /\ LedgerGet(ledger[last.id], <<last.entry, last.skip>>) = 3
    /\ CallCount(colls[last.id], last.entry, last.skip) = Returned(3)

\* C2: add(entry, skip, count) raises ValueError whenever len(entry) is
\* outside [1, max_order] or skip is outside [0, max_skip], and an add that
\* raises leaves every object as it was.
C2_BadAddRaisesAndChangesNothing ==
    [][last'.op = "add" =>
          /\ (\/ Len(last'.entry) \notin 1..MaxOrderOf(colls[last'.id])
              \/ last'.skip \notin 0..MaxSkipOf(colls[last'.id]))
                 => last'.err = "ValueError"
          /\ last'.err # "none" => colls' = colls]_vars

\* an add with a skip above max_skip, refused on an object that holds an entry
C2_Witness ==
    /\ last.op = "add" /\ last.err = "ValueError" /\ ~last.mutated
    /\ Len(last.entry) \in 1..MaxOrderOf(colls[last.id])
    /\ last.skip > MaxSkipOf(colls[last.id])
    /\ \E e \in Entries : CallCount(colls[last.id], e, 0).val > 0

\* C3: count and the membership test are exact-match and total: for every
\* token sequence e of a length from 0 to beyond max_order and every skip
\* in 0..max_skip, count(e, skip) returns without raising, the stored count
\* if e was added with that length and skip and 0 otherwise, and e in
\* collection is true exactly if count(e, skip) > 0 for some skip.
C3_CountIsTotalAndExact ==
    \A id \in Ids :
        /\ \A e \in SeqsUpTo(MaxOrder + 1), skip \in SkipsOf(colls[id]) :
              /\ CallCount(colls[id], e, skip).err = "none"
              /\ onlyAdds[id] =>
                    CallCount(colls[id], e, skip).val
                        = LedgerGet(ledger[id], <<e, skip>>)
        /\ \A e \in SeqsUpTo(MaxOrder + 1) :
              CallContains(colls[id], e)
                  = Returned(\E skip \in SkipsOf(colls[id]) :
                                 CallCount(colls[id], e, skip).val > 0)

\* number of positions at which e is a contiguous window of seq
WindowsAt(seq, e) ==
    Cardinality({i \in 1..(Len(seq) - Len(e) + 1) :
                    SubSeq(seq, i, i + Len(e) - 1) = e})

\* how many adds of e into the stratum (len(e), skip) the claim gives
\* c.add_from_seq(seq): one per entry the windowing function yields for an
\* order in 1..min(max_order, len(seq)) and a skip in
\* 0..max(0, min(max_skip, len(seq) - n)); for src/ngrams.py, one per
\* position at which e is a contiguous window
AddsFromSeq(c, seq, e, skip) ==
    IF /\ Len(e) <= Min(MaxOrderOf(c), Len(seq))
       /\ skip <= Max(0, Min(MaxSkipOf(c), Len(seq) - Len(e)))
    THEN IF IsPlain(c) THEN WindowsAt(seq, e)
         ELSE CountIn(skipgrams_from_seq(seq, Len(e), skip).items, e)
    ELSE 0

\* C4: add_from_seq(seq, count=c) never raises and performs exactly one add
\* with count c for each entry the windowing function yields, for every
\* order n in 1..min(max_order, len(seq)) and every skip in
\* 0..max(0, min(max_skip, len(seq)-n)), into the stratum (n, skip), and
\* leaves every other stratum as it was; for a collection of src/ngrams.py
\* every count grows by c times the number of positions at which the entry
\* is a contiguous window of seq.
C4_AddFromSeqAddsTheWindows ==
    [][last'.op = "add_from_seq" =>
          /\ last'.err = "none"
          /\ \A e \in Entries, skip \in SkipsOf(colls[last'.id]) :
                CallCount(colls'[last'.id], e, skip).val
                    = CallCount(colls[last'.id], e, skip).val
                        + last'.count * AddsFromSeq(colls[last'.id], last'.seq, e, skip)
          /\ \A o \in Ids \ {last'.id} : colls'[o] = colls[o]]_vars

----------------------------------------------------------------------------
(* Claims about combine and the enumeration with a prefix. *)

\* what count(e, skip) returns on c, and 0 where it raises
CountOr0(c, e, skip) ==
    IF CallCount(c, e, skip).err = "none" THEN CallCount(c, e, skip).val ELSE 0

RECURSIVE SumInOthers(_, _, _, _)
\* the sum, over the arguments others[i..], of the count of e at skip in
\* the collection the argument names
SumInOthers(heap, others, i, key) ==
    IF i > Len(others) THEN 0
    ELSE CountOr0(heap[others[i].id], key[1], key[2])
            + SumInOthers(heap, others, i + 1, key)

\* every argument is one of the collection objects
AllCollections(others) == \A i \in 1..Len(others) : others[i].obj = "coll"

\* C7: for Ngrams objects a and b1..bk of src/ngrams.py, a.combine(b1, ...,
\* bk) returns without error, leaves a.order as it was and gives every entry
\* e with len(e) <= a.order the count it had in a plus the sum of its counts
\* in b1..bk; the entries of a bi that are longer than a.order are not
\* merged, their count in a stays 0; the bi are left as they were.
C7_CombineSumsWithinOrder ==
    [][(/\ last'.op = "combine"
        /\ IsPlain(colls[last'.id])
        /\ AllCollections(last'.others)) =>
          /\ last'.err = "none"
          /\ colls'[last'.id].order = colls[last'.id].order
          /\ \A e \in Entries :
                CallCount(colls'[last'.id], e, 0)
                    = Returned(IF Len(e) <= colls[last'.id].order
                               THEN CallCount(colls[last'.id], e, 0).val
                                      + SumInOthers(colls, last'.others, 1, <<e, 0>>)
                               ELSE 0)
          /\ \A o \in Ids \ {last'.id} : colls'[o] = colls[o]]_vars

\* a of order 1 holds "a" once; b of order 2 holds "a", "b" and "ab"; after
\* a.combine(b, b), a counts "a" three times and "b" twice and has not
\* taken "ab"
C7_Witness ==
    /\ last.op = "combine" /\ last.err = "none"
    /\ IsPlain(colls[last.id])
    /\ Len(last.others) = 2 /\ AllCollections(last.others)
    /\ colls[last.id].order = 1
    /\ CallCount(colls[last.id], <<"a">>, 0) = Returned(3)
    /\ CallCount(colls[last.id], <<"b">>, 0) = Returned(2)
    /\ CallCount(colls[last.id], <<"a", "b">>, 0) = Returned(0)
    /\ CallCount(colls[last.others[1].id], <<"a", "b">>, 0) = Returned(1)

\* C8: self.combine(other) on a Skipgrams of src/nskipgrams.py, with
\* other.n > self.n or other.skip > self.skip, returns without error, raises
\* self.n and self.skip to the larger of the two, allocates the strata that
\* are new (self._tries has a trie for every order up to n and every skip
\* up to skip), and for every entry e and skip s within the bounds of other
\* count_self(e, s) is its value before the call plus count_other(e, s).
C8_CombineRaisesBoundsAndMerges ==
    [][(/\ last'.op = "combine"
        /\ ~IsPlain(colls[last'.id])
        /\ Len(last'.others) = 1 /\ AllCollections(last'.others)
        /\ \/ colls[last'.others[1].id].n > colls[last'.id].n
           \/ colls[last'.others[1].id].skip > colls[last'.id].skip) =>
          LET self  == colls[last'.id]
              after == colls'[last'.id]
              other == colls[last'.others[1].id]
          IN  /\ last'.err = "none"
              /\ after.n = Max(self.n, other.n)
              /\ after.skip = Max(self.skip, other.skip)
              /\ DOMAIN after.tries = (1..after.n) \X (0..after.skip)
              /\ \A e \in Entries, s \in 0..other.skip :
                    Len(e) <= other.n =>
                        CallCount(after, e, s)
                            = Returned(CountOr0(self, e, s) + CountOr0(other, e, s))]_vars

\* the classes of the arguments that combine of c refuses: Ngrams.combine
\* of src/ngrams.py takes objects whose type is that Ngrams; Skipgrams.combine
\* of src/nskipgrams.py, which its Ngrams inherits, takes the instances of
\* Skipgrams, the subclass Ngrams included
Refused(c, kind) ==
    IF c.kind = "ngrams.Ngrams" THEN kind # "ngrams.Ngrams"
    ELSE kind \notin {"nskipgrams.Skipgrams", "nskipgrams.Ngrams"}

\* the positions of the arguments of the call whose class combine refuses
RefusedAt(heap, c, others) ==
    {i \in 1..Len(others) : Refused(c, KindOf(heap, others[i]))}

\* C9, as the specification states it: combine raises TypeError if any
\* argument is not a collection of the same concrete class as self.
C9_TypeErrorUnlessSameClass ==
    [][last'.op = "combine" =>
          ((\E i \in 1..Len(last'.others) :
                KindOf(colls, last'.others[i]) # colls[last'.id].kind)
              => last'.err = "TypeError")]_vars

\* C9, amended: combine takes its arguments in order and raises TypeError
\* on reaching the first one whose class it refuses (RefusedAt); a call
\* with such an argument never returns normally, and its exception is
\* TypeError exactly if the call got as far as that argument, the merge of
\* an earlier argument not having raised first; a call whose arguments are
\* all accepted, an Ngrams of src/nskipgrams.py given to Skipgrams.combine
\* and a Skipgrams given to that Ngrams' combine included, raises no
\* TypeError.
C9_TypeErrorAtFirstRefused ==
    [][last'.op = "combine" =>
          LET bad == RefusedAt(colls, colls[last'.id], last'.others)
          IN  IF bad = {} THEN last'.err # "TypeError"
              ELSE LET first == CHOOSE i \in bad : \A j \in bad : i <= j
                   IN  /\ last'.err # "none"
                       /\ last'.at <= first
                       /\ (last'.err = "TypeError") <=> (last'.at = first)]_vars

\* a Skipgrams that holds nothing combines an Ngrams of src/nskipgrams.py
\* that holds an entry, then the string: the Ngrams is merged, the string
\* raises TypeError
C9_Witness ==
    /\ last.op = "combine" /\ last.err = "TypeError" /\ last.at = 2
    /\ last.mutated
    /\ colls[last.id].kind = "nskipgrams.Skipgrams"
    /\ last.others[1].obj = "coll"
    /\ colls[last.others[1].id].kind = "nskipgrams.Ngrams"
    /\ last.others[2] = ArgStr

\* self._tries has a trie for every order and skip within the bounds
StrataComplete(c) ==
    IsPlain(c) \/ DOMAIN c.tries = (1..c.n) \X (0..c.skip)

\* the stored entries of length n (at skip 0) that start with the tokens p
StoredWithPrefix(c, n, p) ==
    {e \in Entries : /\ Len(e) = n
                     /\ CountOr0(c, e, 0) > 0
                     /\ Len(p) <= n
                     /\ SubSeq(e, 1, Len(p)) = p}

\* C10: on a collection whose strata are all allocated, for an order n and
\* a prefix p given as a tuple of tokens or as a string of characters,
\* ngrams_with_counts(n, prefix=p) raises nothing and yields exactly the
\* pairs (entry as a tuple, count) of the stored entries of length n whose
\* first len(p) tokens are p, each once; nothing for a prefix that no
\* stored entry starts with or that is longer than n.
C10_PrefixYieldsMatchingEntries ==
    \A id \in Ids :
        StrataComplete(colls[id]) =>
            \A n \in 1..MaxOrderOf(colls[id]), p \in SeqsUpTo(MaxOrder + 1) :
                \A prefix \in {PyTuple(p), PyStr(p)} :
                    LET g == CallWithCounts(colls[id], n, 0, prefix)
                    IN  /\ g.err = "none"
                        /\ NoDuplicates(g.items)
                        /\ Elems(g.items) =
                              {[ngram |-> PyTuple(e),
                                count |-> CountOr0(colls[id], e, 0)] :
                                  e \in StoredWithPrefix(colls[id], n, p)}

----------------------------------------------------------------------------
(* Claims about the strata of a Skipgrams and about skip = 0. *)

\* C14: in every state reached by construction and any add, add_from_seq
\* and combine calls, self._tries of a Skipgrams holds exactly one root
\* for every key (order, skip) with 1 <= order <= self.n and
\* 0 <= skip <= self.skip, the bounds being the current ones; so add and
\* count raise nothing for an entry length and a skip within the bounds.
C14_OneRootPerKeyWithinBounds ==
    \A id \in Ids :
        ~IsPlain(colls[id]) =>
            /\ DOMAIN colls[id].tries
                  = (1..colls[id].n) \X (0..colls[id].skip)
            /\ \A e \in Entries, s \in 0..colls[id].skip :
                  Len(e) <= colls[id].n =>
                      /\ CallCount(colls[id], e, s).err = "none"
                      /\ CallAdd(colls[id], e, s, 1).err = "none"

----------------------------------------------------------------------------
(* Claims about what a combine that raises TypeError leaves behind. *)

\* C16, as the specification states it: a combine that raises TypeError
\* leaves self as it was, also when collections precede the offending
\* argument.
C16_TypeErrorLeavesSelfUnchanged ==
    [][(last'.op = "combine" /\ last'.err = "TypeError") =>
          colls'[last'.id] = colls[last'.id]]_vars

\* the largest number of a non-empty set of numbers
MaxOf(S) == CHOOSE m \in S : \A x \in S : x <= m

\* C16, amended: combine tests the type of an argument when it reaches it.
\* A combine that raises TypeError at its first argument leaves self as it
\* was; one that raises it at a later argument has merged the collections
\* before that argument and nothing after it: every count of self is its
\* value before the call plus the counts in those collections (for an
\* Ngrams of src/ngrams.py, of the entries within self.order), and the
\* bounds of a Skipgrams are the largest of its own and theirs.
C16_TypeErrorKeepsEarlierMerges ==
    [][(last'.op = "combine" /\ last'.err = "TypeError") =>
          LET self   == colls[last'.id]
              after  == colls'[last'.id]
              merged == SubSeq(last'.others, 1, last'.at - 1)
          IN  /\ last'.at = 1 => after = self
              /\ AllCollections(merged)
              /\ MaxOrderOf(after) =
                    IF IsPlain(self) THEN self.order
                    ELSE MaxOf({self.n} \cup
                               {colls[merged[i].id].n : i \in 1..Len(merged)})
              /\ MaxSkipOf(after) =
                    IF IsPlain(self) THEN 0
                    ELSE MaxOf({self.skip} \cup
                               {colls[merged[i].id].skip : i \in 1..Len(merged)})
              /\ \A e \in Entries, s \in 0..MaxSkip :
                    CountOr0(after, e, s) =
                        CountOr0(self, e, s)
                          + (IF IsPlain(self) /\ Len(e) > self.order THEN 0
                             ELSE SumInOthers(colls, merged, 1, <<e, s>>))]_vars

\* an Ngrams of src/ngrams.py that holds nothing combines one that holds an
\* entry and then the string: it has taken the entry when TypeError is raised
C16_Witness ==
    /\ last.op = "combine" /\ last.err = "TypeError" /\ last.at = 2
    /\ IsPlain(colls[last.id])
    /\ last.others[1].obj = "coll"
    /\ last.mutated
    /\ \E e \in Entries :
          /\ CallCount(colls[last.id], e, 0).val > 0
          /\ CallCount(colls[last.id], e, 0) = CallCount(colls[last.others[1].id], e, 0)

----------------------------------------------------------------------------
(* Claims about total_count (src/ngrams.py). *)

\* the order selections of the claim: None, one order, or an iterable of
\* up to two orders, each in 1..max_order
OrderSelections(c) ==
    {OrderNone} \cup {OrderInt(k) : k \in 1..c.order}
        \cup {OrderList(ks) : ks \in UNION {[1..m -> 1..c.order] : m \in 0..2}}

\* the orders a selection selects
SelectedOrders(c, order) ==
    IF order.type = "None" THEN 1..c.order ELSE Elems(order.v)

\* the stored entries whose length is among the selected orders
StoredAmong(c, order) ==
    {e \in Entries : Len(e) \in SelectedOrders(c, order) /\ CountOr0(c, e, 0) > 0}

RECURSIVE SumOfCounts(_, _)
\* the sum of the counts in c of the entries of S
SumOfCounts(c, S) ==
    IF S = {} THEN 0
    ELSE LET e == CHOOSE x \in S : TRUE
         IN  CountOr0(c, e, 0) + SumOfCounts(c, S \ {e})

\* C11: on every reachable Ngrams of src/ngrams.py and for every order
\* selection (None, one order, an iterable of orders in 1..max_order),
\* total_count(order, unique=True) is the number of distinct stored
\* entries whose length is among the selected orders and
\* total_count(order, unique=False) is the sum of their counts; both are 0
\* on a freshly constructed collection.
C11_TotalCountOverSelectedOrders ==
    \A id \in Ids :
        IsPlain(colls[id]) =>
            \A order \in OrderSelections(colls[id]) :
                /\ CallTotalCount(colls[id], order, TRUE)
                      = Returned(Cardinality(StoredAmong(colls[id], order)))
                /\ CallTotalCount(colls[id], order, FALSE)
                      = Returned(SumOfCounts(colls[id], StoredAmong(colls[id], order)))

----------------------------------------------------------------------------
(* Claims about construction, checked under SpecNew. *)

\* C12: a constructor raises ValueError and creates no collection when
\* max_order is 0, negative or not an integer, or (Skipgrams) when max_skip
\* is negative or not an integer; it returns a collection with those bounds
\* for every integer max_order >= 1 and integer max_skip >= 0.
C12_ConstructionValidates ==
    query.op = "construct" =>
        IF /\ query.n.type = "int" /\ query.n.v >= 1
           /\ query.skip.type = "int" /\ query.skip.v >= 0
        THEN /\ query.err = "none"
             /\ colls[query.id] # None
             /\ colls[query.id].kind = query.class
             /\ MaxOrderOf(colls[query.id]) = query.n.v
             /\ MaxSkipOf(colls[query.id]) = query.skip.v
        ELSE /\ query.err = "ValueError"
             /\ colls[query.id] = None

----------------------------------------------------------------------------
(* Claims about the queries, checked under SpecQ. *)

\* C17: no query changes a collection: a step that is a count, a
\* membership test, a total_count, the creation of an enumeration or its
\* consumption to the end leaves both objects as they were, their bounds,
\* their strata and every node of their tries, the empty ones included.  A
\* query that changes nothing leaves the state the next query starts from,
\* so what holds of every single query holds of every sequence of them.
C17_QueriesLeaveCollectionsUnchanged ==
    [][query' # query => colls' = colls]_vars

\* a count that returned 0 for an entry whose first token no stored entry
\* of its stratum starts with, the stratum holding other entries
C17_Witness ==
    /\ query.op = "count" /\ query.pc = "done" /\ query.err = "none"
    /\ query.entry # <<>>
    /\ query.val = 0
    /\ \E e \in Entries :
          /\ Len(e) = Len(query.entry)
          /\ CountOr0(colls[query.id], e, query.skip) > 0
    /\ \A e \in Entries :
          (Len(e) = Len(query.entry) /\ CountOr0(colls[query.id], e, query.skip) > 0)
              => Head(e) # Head(query.entry)

\* the arguments of a created generator are invalid: what the first line
\* of its body, run at the call, would raise ValueError on
InvalidGeneratorArgs(q) ==
    IF q.op = "skipgrams_from_seq"
    THEN skipgrams_from_seq(q.seq, q.n, q.skip).err = "ValueError"
    ELSE CallEnumerate(colls[q.id], q.order, q.skip, q.prefix).err = "ValueError"

\* C15: an invalid argument is refused by the call that passes it: no
\* generator exists whose arguments are invalid, that is, ngrams_with_counts
\* with a non-integer order, skipgrams_with_counts with n or skip outside
\* the bounds of the collection and skipgrams_from_seq with n > len(seq) or
\* a skip out of range return no generator that raises ValueError only
\* when its first element is requested.
C15_InvalidArgumentsRefusedAtTheCall ==
    (query.op \in {"with_counts", "skipgrams_from_seq"} /\ query.pc = "created")
        => ~InvalidGeneratorArgs(query)

----------------------------------------------------------------------------
(* The objects with references.  Above, a trie is a value; here a trie is   *)
(* an object at an address of the heap `nodes`, self._tries maps a key to   *)
(* the address of the stratum's root, and a trie maps a token to the        *)
(* address of a child trie or to a count.  A node that two objects reach    *)
(* is a node they share: a change made through one shows through the other. *)

\* number of calls in one behaviour of SpecHeap
MaxStepsHeap == 3

\* a reference to the trie at address a
RefNode(a) == [tag |-> "ref", val |-> a]

RECURSIVE heap_descend(_, _, _)
\* for token in ngram[:-1]: trie = trie[token], from the trie at address a:
\* the defaultdict gives a missing token a new empty trie, which gets the
\* next address.  A count in the way is not subscriptable.
heap_descend(h, a, tokens) ==
    IF tokens = <<>> THEN [err |-> "none", heap |-> h, at |-> a]
    ELSE IF Head(tokens) \notin DOMAIN h[a]
        THEN heap_descend(
                 Append([h EXCEPT ![a] = DictSet(@, Head(tokens), RefNode(Len(h) + 1))],
                        trie_new.val),
                 Len(h) + 1, Tail(tokens))
    ELSE IF h[a][Head(tokens)].tag = "int"
        THEN [err |-> "TypeError", heap |-> h, at |-> a]
    ELSE heap_descend(h, h[a][Head(tokens)].val, Tail(tokens))

\* the body of add / _add below the validation, on the root at address root
heap_insert(h, root, ngram, count) ==
    LET w          == heap_descend(h, root, SubSeq(ngram, 1, Len(ngram) - 1))
        last_token == ngram[Len(ngram)]
        trie       == w.heap[w.at]
    IN  IF w.err # "none" THEN [err |-> w.err, heap |-> w.heap]
        ELSE [err |-> "none",
              heap |-> [w.heap EXCEPT ![w.at] =
                           DictSet(trie, last_token,
                               IF last_token \in DOMAIN trie
                               THEN IntNode(trie[last_token].val + count)
                               ELSE IntNode(count))]]

RECURSIVE heap_trie(_, _)
\* the trie at address a, as the value its references lead to
heap_trie(h, a) ==
    DictNode([t \in DOMAIN h[a] |->
                 IF h[a][t].tag = "ref" THEN heap_trie(h, h[a][t].val) ELSE h[a][t]])

\* the object c, whose tries are addresses, as a value
Deref(h, c) == [c EXCEPT !.tries = [k \in DOMAIN c.tries |-> heap_trie(h, c.tries[k])]]

RECURSIVE ReachFrom(_, _)
\* the addresses of the tries reached from the trie at address a
ReachFrom(h, a) ==
    {a} \cup UNION {ReachFrom(h, h[a][t].val) :
                       t \in {u \in DOMAIN h[a] : h[a][u].tag = "ref"}}

\* the addresses of the tries the object c reaches
NodesOf(h, c) == UNION {ReachFrom(h, c.tries[k]) : k \in DOMAIN c.tries}

\* ngrams.py, Ngrams.add(ngram, count)
heap_Ngrams_add(h, c, ngram, count) ==
    IF ~(1 <= Len(ngram) /\ Len(ngram) <= c.order)
        THEN [err |-> "ValueError", heap |-> h, coll |-> c]
    ELSE LET r == heap_insert(h, c.tries[Len(ngram)], ngram, count)
         IN  [err |-> r.err, heap |-> r.heap, coll |-> c]

\* nskipgrams.py, Skipgrams._add(skipgram, skip, count, validated)
heap_Skipgrams__add(h, c, skipgram, skip, count, validated) ==
    IF ~validated /\ ~(1 <= Len(skipgram) /\ Len(skipgram) <= c.n)
        THEN [err |-> "ValueError", heap |-> h, coll |-> c]
    ELSE IF ~validated /\ validate_skip(skip, TRUE, c.skip) # "none"
        THEN [err |-> "ValueError", heap |-> h, coll |-> c]
    ELSE IF <<Len(skipgram), skip>> \notin DOMAIN c.tries
        THEN [err |-> "KeyError", heap |-> h, coll |-> c]
    ELSE LET r == heap_insert(h, c.tries[<<Len(skipgram), skip>>], skipgram, count)
         IN  [err |-> r.err, heap |-> r.heap, coll |-> c]

RECURSIVE heap_Ngrams_add_pairs(_, _, _)
\* for ngram, count in pairs: self.add(ngram, count)
heap_Ngrams_add_pairs(h, c, pairs) ==
    IF pairs = <<>> THEN [err |-> "none", heap |-> h, coll |-> c]
    ELSE LET r == heap_Ngrams_add(h, c, Head(pairs).ngram.items, Head(pairs).count)
         IN  IF r.err # "none" THEN r
             ELSE heap_Ngrams_add_pairs(r.heap, c, Tail(pairs))

\* a combine that takes the tries of the first argument for its own in
\* place of adding their entries one by one
heap_Ngrams_combine_adopting(h, c, objs, others, i) ==
    IF i > Len(others) THEN [err |-> "none", heap |-> h, coll |-> c, at |-> 0]
    ELSE IF ~IsExactlyNgrams(KindOf(objs, others[i]))
        THEN [err |-> "TypeError", heap |-> h, coll |-> c, at |-> i]
    ELSE LET other == objs[others[i].id]
         IN  [err |-> "none", heap |-> h, at |-> 0,
              coll |-> [c EXCEPT !.tries =
                           [k \in DOMAIN c.tries |->
                               IF k \in DOMAIN other.tries THEN other.tries[k]
                                                          ELSE c.tries[k]]]]

RECURSIVE heap_Ngrams_combine_from(_, _, _, _, _)
\* the loop of Ngrams.combine (src/ngrams.py) from others[i] on.  The pairs
\* other.ngrams_with_counts yields are tuples of tokens and ints; they are
\* read from other as it stands when the loop over it starts.
heap_Ngrams_combine_from(h, c, objs, others, i) ==
    IF i > Len(others) THEN [err |-> "none", heap |-> h, coll |-> c, at |-> 0]
    ELSE IF ~IsExactlyNgrams(KindOf(objs, others[i]))
        THEN [err |-> "TypeError", heap |-> h, coll |-> c, at |-> i]
    ELSE LET other == Deref(h, objs[others[i].id])
             g == Ngrams_ngrams_with_counts(other,
                      OrderList(Range(1, Min(other.order, c.order) + 1)), PyNone)
             r == heap_Ngrams_add_pairs(h, c, g.items)
         IN  IF r.err # "none"
                 THEN [err |-> r.err, heap |-> r.heap, coll |-> r.coll, at |-> i]
             ELSE IF g.err # "none"
                 THEN [err |-> g.err, heap |-> r.heap, coll |-> r.coll, at |-> i]
             ELSE heap_Ngrams_combine_from(r.heap, r.coll, objs, others, i + 1)

RECURSIVE heap_Skipgrams_add_pairs(_, _, _, _)
\* for ngram, count in pairs: self._add(ngram, skip, count, validated=True)
heap_Skipgrams_add_pairs(h, c, pairs, skip) ==
    IF pairs = <<>> THEN [err |-> "none", heap |-> h, coll |-> c]
    ELSE LET r == heap_Skipgrams__add(h, c, Head(pairs).ngram.items, skip,
                                      Head(pairs).count, TRUE)
         IN  IF r.err # "none" THEN r
             ELSE heap_Skipgrams_add_pairs(r.heap, c, Tail(pairs), skip)

RECURSIVE heap_Skipgrams_merge_from(_, _, _, _, _)
\* the loops over n and skip of Skipgrams.combine for one other, from
\* (n, skip) on; other is read as it stands when each inner loop starts
heap_Skipgrams_merge_from(h, c, otherRef, n, skip) ==
    IF n > otherRef.n THEN [err |-> "none", heap |-> h, coll |-> c]
    ELSE IF skip > otherRef.skip THEN heap_Skipgrams_merge_from(h, c, otherRef, n + 1, 0)
    ELSE LET g == Skipgrams__skipgrams_with_counts(Deref(h, otherRef), n, skip,
                                                   PyNone, TRUE)
             r == heap_Skipgrams_add_pairs(h, c, g.items, skip)
         IN  IF r.err # "none" THEN r
             ELSE IF g.err # "none"
                 THEN [err |-> g.err, heap |-> r.heap, coll |-> r.coll]
             ELSE heap_Skipgrams_merge_from(r.heap, c, otherRef, n, skip + 1)

RECURSIVE heap_Skipgrams_combine_from(_, _, _, _, _)
\* the loop of Skipgrams.combine (src/nskipgrams.py) from others[i] on
heap_Skipgrams_combine_from(h, c, objs, others, i) ==
    IF i > Len(others) THEN [err |-> "none", heap |-> h, coll |-> c, at |-> 0]
    ELSE IF ~IsInstanceSkipgrams(KindOf(objs, others[i]))
        THEN [err |-> "TypeError", heap |-> h, coll |-> c, at |-> i]
    ELSE LET otherRef == objs[others[i].id]
             r == heap_Skipgrams_merge_from(h, Skipgrams_raise_bounds(c, otherRef),
                                            otherRef, 1, 0)
         IN  IF r.err # "none"
                 THEN [err |-> r.err, heap |-> r.heap, coll |-> r.coll, at |-> i]
             ELSE heap_Skipgrams_combine_from(r.heap, r.coll, objs, others, i + 1)

\* obj.add(entry, skip, count) on the heap
HeapCallAdd(h, c, entry, skip, count) ==
    IF IsPlain(c) THEN heap_Ngrams_add(h, c, entry, count)
    ELSE heap_Skipgrams__add(h, c, entry, skip, count, FALSE)

\* obj.combine(*others) on the heap
HeapCallCombine(h, c, objs, others) ==
    IF IsPlain(c) THEN heap_Ngrams_combine_from(h, c, objs, others, 1)
    ELSE heap_Skipgrams_combine_from(h, c, objs, others, 1)

\* the position of a key among the keys of self._tries, in the order the
\* constructor's dict comprehension creates them
KeyIndex(c, key) ==
    IF IsPlain(c) THEN key ELSE (key[1] - 1) * (c.skip + 1) + key[2] + 1

\* the constructed object c with its roots at the addresses above base
heap_new(c, base) ==
    [c EXCEPT !.tries = [k \in DOMAIN c.tries |-> base + KeyIndex(c, k)]]

\* two objects of one module, the roots of the first allocated before the
\* roots of the second
InitHeap ==
    /\ \E cs \in [Ids -> ConstructedPlain] \cup [Ids -> ConstructedSkip] :
          LET k1 == Cardinality(DOMAIN cs[1].tries)
              k2 == Cardinality(DOMAIN cs[2].tries)
          IN  /\ colls = [id \in Ids |->
                             heap_new(cs[id], IF id = 1 THEN 0 ELSE k1)]
              /\ nodes = [a \in 1..(k1 + k2) |-> trie_new.val]
    /\ ledger = [id \in Ids |-> NoLedger]
    /\ onlyAdds = [id \in Ids |-> TRUE]
    /\ last = NoCall
    /\ budget = MaxStepsHeap
    /\ win = WinIdle
    /\ query = NoQuery

\* colls[id].add(entry, skip, 1)
HeapAdd(id, entry, skip) ==
    /\ CanCall
    /\ skip \in SkipArgs(colls[id])
    /\ \E r \in {HeapCallAdd(nodes, colls[id], entry, skip, 1)} :
          /\ colls' = [colls EXCEPT ![id] = r.coll]
          /\ nodes' = r.heap
          /\ last' = Call("add", id, entry, skip, 1, <<>>, <<>>, r.err, 0,
                          r.coll # colls[id] \/ r.heap # nodes)
    /\ budget' = budget - 1
    /\ UNCHANGED <<ledger, onlyAdds, win, query>>

\* colls[id].combine(*others)
HeapCombine(id, others) ==
    /\ CanCall
    /\ \E r \in {HeapCallCombine(nodes, colls[id], colls, others)} :
          /\ colls' = [colls EXCEPT ![id] = r.coll]
          /\ nodes' = r.heap
          /\ last' = Call("combine", id, <<>>, 0, 0, <<>>, others, r.err, r.at,
                          r.coll # colls[id] \/ r.heap # nodes)
    /\ budget' = budget - 1
    /\ UNCHANGED <<ledger, onlyAdds, win, query>>

NextHeap ==
    \/ \E id \in Ids, entry \in EntryArgs, skip \in -1..(MaxSkip + 1) :
            HeapAdd(id, entry, skip)
    \/ \E id \in Ids : \E others \in OtherArgs(id) : HeapCombine(id, others)

SpecHeap == InitHeap /\ [][NextHeap]_vars

----------------------------------------------------------------------------
(* Claims about combine and sharing, checked under SpecHeap. *)

\* C13: combine mutates only self.  After self.combine(o1, ..., ok), whether
\* it returned or raised, every other object has the bounds, the strata
\* and the tries (entries and counts) it had before, and no trie is reached
\* from both objects; so a later add to one object changes nothing of the
\* other either.  Every call of add and combine is a step of this formula.
C13_CombineMutatesOnlySelf ==
    [][/\ \A o \in Ids \ {last'.id} :
             /\ colls'[o] = colls[o]
             /\ Deref(nodes', colls'[o]) = Deref(nodes, colls[o])
       /\ NodesOf(nodes', colls'[1]) \cap NodesOf(nodes', colls'[2]) = {}]_vars

\* a combine that returned, having merged the entries of the other object
\* into an object that held entries of its own
C13_Witness ==
    /\ last.op = "combine" /\ last.err = "none"
    /\ \E i \in 1..Len(last.others) :
          /\ last.others[i].obj = "coll"
          /\ \E a \in NodesOf(nodes, colls[last.others[i].id]) : DOMAIN nodes[a] # {}
    /\ \E a \in NodesOf(nodes, colls[last.id]) :
          \E t \in DOMAIN nodes[a] : nodes[a][t].tag = "int" /\ nodes[a][t].val > 1

============================================================================
